---- MODULE Spec2Model ----
(***************************************************************************)
(* Bone Aligner (src/__init__.py): seven operators over two armatures.     *)
(*                                                                         *)
(*   edit mode : align active->selected, align selected->active,           *)
(*               rename selected->active name, rename active->selected     *)
(*   pose mode : link active->selected, link selected->active,             *)
(*               clear constraints                                         *)
(*                                                                         *)
(* and the helper get_sorted_bones, modelled twice: as the operator        *)
(* GetSortedBones used by the align operators, and step by step (one       *)
(* action per call / return of topological_sort) in SortSpec.              *)
(***************************************************************************)
EXTENDS Integers, Sequences, FiniteSets, TLC

VARIABLES
    mode,          \* context.mode: "EDIT_ARMATURE" or "POSE"
    armatures,     \* object id -> sequence of bones (edit bone and pose bone fields)
    op,            \* the operator invoked last ("none" before any)
    args,          \* the context the last invocation read
    result,        \* what the last invocation returned
    trace,         \* the last invocation's events, in program order
    pre,           \* armatures as they were when the last invocation began
    invocations,   \* operator invocations so far
    sortRig,       \* SortSpec: the bone collection being sorted
    sortPc,        \* SortSpec: "idle", "run" or "done"
    loopIdx,       \* SortSpec: position of `for bone in bones`
    stack,         \* SortSpec: frames of topological_sort, top last
    visited,       \* SortSpec: the set visited
    sorted_bones   \* SortSpec: the list sorted_bones (bone indices)

vars == <<mode, armatures, op, args, result, trace, pre, invocations,
          sortRig, sortPc, loopIdx, stack, visited, sorted_bones>>

mainVars == <<mode, armatures, op, args, result, trace, pre, invocations>>
sortVars == <<sortRig, sortPc, loopIdx, stack, visited, sorted_bones>>

----------------------------------------------------------------------------
(* Bounds *)

MaxBones == 2          \* bones per armature in the operators' model
MaxSortBones == 3      \* bones of the collection sorted step by step
MaxConstraints == 2    \* constraints a pose bone may start with
MaxSuffix == 1         \* highest ".00k" suffix the host's unique naming may hand out
MaxInvocations == 2    \* invocations in one behaviour: the first and its repeats

----------------------------------------------------------------------------
(* Names: strings as sequences of characters, so that str.lower() is       *)
(* computed character by character.                                        *)

hip   == <<"h", "i", "p">>
HIP   == <<"H", "I", "P">>
spine == <<"s", "p", "i", "n", "e">>
head  == <<"h", "e", "a", "d">>
Hip   == <<"H", "i", "p">>
SPINE == <<"S", "P", "I", "N", "E">>

\* The names the generated armatures draw on: equal, equal but for case, different
BoneNames == {hip, HIP, spine}
NameList == <<hip, HIP, spine, head, Hip, SPINE>>

LowerChar(c) ==
    CASE c = "H" -> "h"
      [] c = "I" -> "i"
      [] c = "P" -> "p"
      [] c = "S" -> "s"
      [] c = "N" -> "n"
      [] c = "E" -> "e"
      [] OTHER -> c

\* str.lower()
Lower(name) == [i \in DOMAIN name |-> LowerChar(name[i])]

\* compare_names(name1, name2, case_sensitive)
compare_names(name1, name2, case_sensitive) ==
    IF case_sensitive THEN name1 = name2 ELSE Lower(name1) = Lower(name2)

----------------------------------------------------------------------------
(* Objects and bones *)

ActiveObject == 1
OtherObject == 2
Objects == {ActiveObject, OtherObject}

None == 0

\* A bone as the host creates it: every transform field holds a value of its own.
NewBone(obj, i, name, parent) ==
    [name |-> name, parent |-> parent,
     head |-> <<obj, i, "head">>, tail |-> <<obj, i, "tail">>,
     matrix |-> <<obj, i, "matrix">>, roll |-> <<obj, i, "roll">>,
     constraints |-> <<>>]

Range(s) == {s[i] : i \in DOMAIN s}

\* Sequences over S of length at most n
SeqUpTo(S, n) == UNION {[1..k -> S] : k \in 0..n}

\* Sequences of distinct elements
Injective(s) == \A i, j \in DOMAIN s : s[i] = s[j] => i = j

----------------------------------------------------------------------------
(* get_sorted_bones, as an operator *)

RECURSIVE topological_sort(_, _, _)
topological_sort(bones, b, st) ==
    IF bones[b].name \in st.visited
    THEN st
    ELSE LET st1 == [st EXCEPT !.visited = @ \cup {bones[b].name}]
             st2 == IF bones[b].parent # None
                    THEN topological_sort(bones, bones[b].parent, st1)
                    ELSE st1
         IN [st2 EXCEPT !.sorted = Append(@, b)]

RECURSIVE SortFrom(_, _, _)
SortFrom(bones, k, st) ==
    IF k > Len(bones) THEN st
    ELSE SortFrom(bones, k + 1, topological_sort(bones, k, st))

GetSortedBones(bones) ==
    SortFrom(bones, 1, [visited |-> {}, sorted |-> <<>>]).sorted

----------------------------------------------------------------------------
(* get_sorted_bones, step by step.  A frame is [bone, pc]: pc = "enter" at *)
(* the call of topological_sort(bone), pc = "append" once the call on the  *)
(* parent has been made and sorted_bones.append(bone) is what remains.     *)

\* Any parent references at all, cycles and self-parents included: the
\* function itself checks nothing about them.
SortRigs ==
    UNION {{[i \in 1..n |-> NewBone(ActiveObject, i, NameList[i], par[i])] :
              par \in [1..n -> 0..n]} : n \in 0..MaxSortBones}

SortInit ==
    /\ sortRig \in SortRigs
    /\ sortPc = "run"
    /\ loopIdx = 1
    /\ stack = <<>>
    /\ visited = {}
    /\ sorted_bones = <<>>
    /\ mode = "EDIT_ARMATURE"
    /\ armatures = [o \in Objects |-> <<>>]
    /\ op = "none"
    /\ args = <<>>
    /\ result = "none"
    /\ trace = <<>>
    /\ pre = [o \in Objects |-> <<>>]
    /\ invocations = 0

Top == stack[Len(stack)]
Pop(s) == SubSeq(s, 1, Len(s) - 1)

\* for bone in bones: topological_sort(bone)
SortLoop ==
    /\ sortPc = "run"
    /\ stack = <<>>
    /\ loopIdx <= Len(sortRig)
    /\ stack' = <<[bone |-> loopIdx, pc |-> "enter"]>>
    /\ loopIdx' = loopIdx + 1
    /\ UNCHANGED <<sortRig, sortPc, visited, sorted_bones>>
    /\ UNCHANGED mainVars

\* What entering topological_sort(bone) does to the stack, given whether the
\* bone is already visited.
EnterStack(b, seen) ==
    IF seen THEN Pop(stack)
    ELSE IF sortRig[b].parent # None
         THEN Append([stack EXCEPT ![Len(stack)].pc = "append"],
                     [bone |-> sortRig[b].parent, pc |-> "enter"])
         ELSE Pop(stack)

\* Mutant of SortEnter: the bone is appended before the call on its parent
SortEnterAppendFirst ==
    /\ sortPc = "run"
    /\ stack # <<>>
    /\ Top.pc = "enter"
    /\ LET b == Top.bone
           seen == sortRig[b].name \in visited
       IN /\ visited' = (IF seen THEN visited ELSE visited \cup {sortRig[b].name})
          /\ stack' = (IF seen \/ sortRig[b].parent = None THEN Pop(stack)
                       ELSE Append(Pop(stack), [bone |-> sortRig[b].parent, pc |-> "enter"]))
          /\ sorted_bones' = (IF ~seen THEN Append(sorted_bones, b) ELSE sorted_bones)
    /\ UNCHANGED <<sortRig, sortPc, loopIdx>>
    /\ UNCHANGED mainVars

\* Mutant of SortEnter: the append stands outside the `if`, so a bone already
\* visited is appended again
SortEnterAppendAlways ==
    /\ sortPc = "run"
    /\ stack # <<>>
    /\ Top.pc = "enter"
    /\ LET b == Top.bone
           seen == sortRig[b].name \in visited
       IN /\ visited' = (IF seen THEN visited ELSE visited \cup {sortRig[b].name})
          /\ stack' = EnterStack(b, seen)
          /\ sorted_bones' = (IF seen \/ sortRig[b].parent = None
                              THEN Append(sorted_bones, b) ELSE sorted_bones)
    /\ UNCHANGED <<sortRig, sortPc, loopIdx>>
    /\ UNCHANGED mainVars

\* if bone.name not in visited: visited.add(bone.name); if bone.parent: <call>
SortEnter ==
    /\ sortPc = "run"
    /\ stack # <<>>
    /\ Top.pc = "enter"
    /\ LET b == Top.bone
           seen == sortRig[b].name \in visited
       IN /\ visited' = (IF seen THEN visited ELSE visited \cup {sortRig[b].name})
          /\ stack' = EnterStack(b, seen)
          /\ sorted_bones' = (IF ~seen /\ sortRig[b].parent = None
                              THEN Append(sorted_bones, b) ELSE sorted_bones)
    /\ UNCHANGED <<sortRig, sortPc, loopIdx>>
    /\ UNCHANGED mainVars

\* sorted_bones.append(bone), after the call on the parent returned
SortAppend ==
    /\ sortPc = "run"
    /\ stack # <<>>
    /\ Top.pc = "append"
    /\ sorted_bones' = Append(sorted_bones, Top.bone)
    /\ stack' = Pop(stack)
    /\ UNCHANGED <<sortRig, sortPc, loopIdx, visited>>
    /\ UNCHANGED mainVars

\* return sorted_bones
SortReturn ==
    /\ sortPc = "run"
    /\ stack = <<>>
    /\ loopIdx > Len(sortRig)
    /\ sortPc' = "done"
    /\ UNCHANGED <<sortRig, loopIdx, stack, visited, sorted_bones>>
    /\ UNCHANGED mainVars

SortNext == SortLoop \/ SortEnter \/ SortAppend \/ SortReturn

\* The interpreter runs the call to completion: a step that can be taken is taken.
SortSpec == SortInit /\ [][SortNext]_vars /\ WF_vars(SortNext)

----------------------------------------------------------------------------
(* Events of one invocation, in program order.  A report is tagged as the  *)
(* invocation's summary or as a per-pair message.                          *)

NoBone == <<None, None>>

Report(level, summary, n) ==
    [ev |-> "report", level |-> level, summary |-> summary, n |-> n, bone |-> NoBone]

\* An assignment to a bone's fields, or a change of its constraint list
Mutate(ref) ==
    [ev |-> "mutate", level |-> "", summary |-> FALSE, n |-> 0, bone |-> ref]

\* context.view_layer.update()
Update ==
    [ev |-> "update", level |-> "", summary |-> FALSE, n |-> 0, bone |-> NoBone]

Outcome(arm, res, tr) == [arm |-> arm, result |-> res, trace |-> tr]

----------------------------------------------------------------------------
(* Name lookup shared by align_bones and add_constraints *)

\* selected_armatures = [obj for obj in context.selected_objects
\*                       if obj.type == 'ARMATURE' and obj != active_armature]
\* Every object of the model is an armature.
selected_armatures(selected_objects) == selected_objects \ {ActiveObject}

\* {bone.name: bone for bone in <bones in `order`>}.get(key): the last bone
\* of `order` with that name, or None.  Keys are the names as they are.
DictGet(bones, order, key) ==
    LET hits == {p \in DOMAIN order : bones[order[p]].name = key}
    IN IF hits = {} THEN None
       ELSE order[CHOOSE p \in hits : \A q \in hits : q <= p]

\* compare_name = active_bone.name if case_sensitive else active_bone.name.lower()
\* ... .get(compare_name if case_sensitive else compare_name.lower())
LookupKey(name, case_sensitive) ==
    LET compare_name == IF case_sensitive THEN name ELSE Lower(name)
    IN IF case_sensitive THEN compare_name ELSE Lower(compare_name)

Identity(n) == [i \in 1..n |-> i]

----------------------------------------------------------------------------
(* Edit mode: align_bones *)

\* active_to_selected: the active bone receives (lines 87-90)
AlignActiveBone(arm, ai, sel, ti) ==
    LET target_bone == arm[sel][ti]
    IN [arm EXCEPT ![ActiveObject][ai].head = target_bone.head,
                   ![ActiveObject][ai].tail = target_bone.tail,
                   ![ActiveObject][ai].matrix = target_bone.matrix,
                   ![ActiveObject][ai].roll = target_bone.roll]

\* not active_to_selected: the target bone receives (lines 93-96); its roll
\* is assigned from itself
AlignTargetBone(arm, ai, sel, ti) ==
    LET active_bone == arm[ActiveObject][ai]
        target_bone == arm[sel][ti]
    IN [arm EXCEPT ![sel][ti].head = active_bone.head,
                   ![sel][ti].tail = active_bone.tail,
                   ![sel][ti].matrix = active_bone.matrix,
                   ![sel][ti].roll = target_bone.roll]

\* One iteration of `for active_bone in active_bones` (lines 82-100)
AlignStep(acc, ai, sel, selected_order, case_sensitive, active_to_selected) ==
    LET active_bone == acc.arm[ActiveObject][ai]
        ti == DictGet(acc.arm[sel], selected_order,
                      LookupKey(active_bone.name, case_sensitive))
    IN IF ti # None
       THEN [arm |-> IF active_to_selected
                     THEN AlignActiveBone(acc.arm, ai, sel, ti)
                     ELSE AlignTargetBone(acc.arm, ai, sel, ti),
             aligned_count |-> acc.aligned_count + 1,
             unmatched_bones |-> acc.unmatched_bones,
             trace |-> acc.trace \o
                 <<Mutate(IF active_to_selected THEN <<ActiveObject, ai>> ELSE <<sel, ti>>),
                   Report("INFO", FALSE, 0)>>]
       ELSE [acc EXCEPT !.unmatched_bones = Append(@, active_bone.name)]

RECURSIVE AlignLoop(_, _, _, _, _, _, _)
AlignLoop(acc, active_order, k, sel, selected_order, case_sensitive, active_to_selected) ==
    IF k > Len(active_order) THEN acc
    ELSE AlignLoop(AlignStep(acc, active_order[k], sel, selected_order,
                             case_sensitive, active_to_selected),
                   active_order, k + 1, sel, selected_order,
                   case_sensitive, active_to_selected)

\* Mutant of Summarise: an info whatever the count
SummariseAlwaysInfo(acc) ==
    Outcome(acc.arm, "FINISHED",
            acc.trace \o <<Report("INFO", TRUE, acc.aligned_count), Update>>)

\* Mutant of Summarise: the scene update is issued before the summary
SummariseAfterUpdate(acc) ==
    Outcome(acc.arm, "FINISHED",
            acc.trace \o
            <<Update,
              IF acc.aligned_count = 0
              THEN Report("WARNING", TRUE, 0)
              ELSE Report("INFO", TRUE, acc.aligned_count)>>)

\* The summary and what follows it (lines 102-108, 267-273)
Summarise(acc) ==
    Outcome(acc.arm, "FINISHED",
            acc.trace \o
            <<IF acc.aligned_count = 0
              THEN Report("WARNING", TRUE, 0)
              ELSE Report("INFO", TRUE, acc.aligned_count),
              Update>>)

Cancelled(arm, level) == Outcome(arm, "CANCELLED", <<Report(level, TRUE, 0)>>)

align_bones(arm, case_sensitive, selected_objects, active_to_selected) ==
    IF selected_armatures(selected_objects) = {}
    THEN Cancelled(arm, "ERROR")
    ELSE LET sel == CHOOSE o \in selected_armatures(selected_objects) : TRUE
         IN IF arm[ActiveObject] = <<>> \/ arm[sel] = <<>>
            THEN Cancelled(arm, "ERROR")
            ELSE Summarise(
                   AlignLoop([arm |-> arm, aligned_count |-> 0,
                              unmatched_bones |-> <<>>, trace |-> <<>>],
                             GetSortedBones(arm[ActiveObject]), 1, sel,
                             GetSortedBones(arm[sel]),
                             case_sensitive, active_to_selected))

\* poll of the two edit-mode align operators
PollAlignEdit(selected_objects) ==
    /\ Cardinality(selected_objects) >= 2
    /\ mode = "EDIT_ARMATURE"

Record(name, a, out) ==
    /\ invocations' = invocations + 1
    /\ op' = name
    /\ args' = a
    /\ pre' = armatures
    /\ armatures' = out.arm
    /\ result' = out.result
    /\ trace' = out.trace
    /\ UNCHANGED mode
    /\ UNCHANGED sortVars

\* An operator is invoked in the scene as it starts; only a link operator is
\* invoked again (RepeatLink)
First == invocations = 0

Invoke(name, a, out) == Record(name, a, out)

NoArgs ==
    [case_sensitive |-> TRUE, selected_objects |-> {}, bones |-> <<>>,
     active_bone |-> NoBone, iter |-> "", raises |-> FALSE]

AlignActiveToSelected ==
    /\ First
    /\ \E case_sensitive \in BOOLEAN, selected_objects \in SUBSET Objects :
        /\ PollAlignEdit(selected_objects)
        /\ Invoke("align_active_to_selected",
                  [NoArgs EXCEPT !.case_sensitive = case_sensitive,
                                 !.selected_objects = selected_objects],
                  align_bones(armatures, case_sensitive, selected_objects, TRUE))

AlignSelectedToActive ==
    /\ First
    /\ \E case_sensitive \in BOOLEAN, selected_objects \in SUBSET Objects :
        /\ PollAlignEdit(selected_objects)
        /\ Invoke("align_selected_to_active",
                  [NoArgs EXCEPT !.case_sensitive = case_sensitive,
                                 !.selected_objects = selected_objects],
                  align_bones(armatures, case_sensitive, selected_objects, FALSE))

----------------------------------------------------------------------------
(* Pose mode: constraint lists *)

Constraint(type, target, subtarget) ==
    [type |-> type, target |-> target, subtarget |-> subtarget,
     target_space |-> "WORLD", owner_space |-> "WORLD", mute |-> FALSE]

RemoveAt(list, i) == SubSeq(list, 1, i - 1) \o SubSeq(list, i + 1, Len(list))

\* How the host's collection iterator behaves when the element it has just
\* yielded is removed inside the loop body.  The program does not decide it:
\*   "successor": the iterator already holds the element that followed, and
\*                yields it next;
\*   "position" : the iterator holds a position in the collection; the
\*                elements shift down, and the one that followed is skipped.
IterModes == {"successor", "position"}

\* for constraint in list: if <constraint is one of `doomed`>: list.remove(constraint)
\* from position i on.  Returns the list left and the number of removals.
RECURSIVE RemoveWhileIterating(_, _, _, _, _)
RemoveWhileIterating(list, i, removed, doomed, iter) ==
    IF i > Len(list) THEN [list |-> list, removed |-> removed]
    ELSE IF list[i] \in doomed
         THEN RemoveWhileIterating(RemoveAt(list, i),
                                   IF iter = "position" THEN i + 1 ELSE i,
                                   removed + 1, doomed, iter)
         ELSE RemoveWhileIterating(list, i + 1, removed, doomed, iter)

\* Lines 244-260: drop the equivalent constraints of dest_bone, then add one
LinkBone(arm, dest, source_armature, source_name, iter) ==
    LET list == arm[dest[1]][dest[2]].constraints
        equivalent == {c \in Range(list) : /\ c.type = "COPY_TRANSFORMS"
                                           /\ c.target = source_armature
                                           /\ c.subtarget = source_name}
        kept == RemoveWhileIterating(list, 1, 0, equivalent, iter).list
    IN [arm EXCEPT ![dest[1]][dest[2]].constraints =
            Append(kept, Constraint("COPY_TRANSFORMS", source_armature, source_name))]

\* One iteration of `for active_bone in active_bones` (lines 240-265)
LinkStep(acc, ai, sel, case_sensitive, active_to_selected, iter) ==
    LET active_bone == acc.arm[ActiveObject][ai]
        ti == DictGet(acc.arm[sel], Identity(Len(acc.arm[sel])),
                      LookupKey(active_bone.name, case_sensitive))
        source_armature == IF active_to_selected THEN sel ELSE ActiveObject
        source_name == IF active_to_selected THEN acc.arm[sel][ti].name
                       ELSE active_bone.name
        dest == IF active_to_selected THEN <<ActiveObject, ai>> ELSE <<sel, ti>>
    IN IF ti # None
       THEN [arm |-> LinkBone(acc.arm, dest, source_armature, source_name, iter),
             aligned_count |-> acc.aligned_count + 1,
             unmatched_bones |-> acc.unmatched_bones,
             trace |-> acc.trace \o <<Mutate(dest), Report("INFO", FALSE, 0)>>]
       ELSE [acc EXCEPT !.unmatched_bones = Append(@, active_bone.name)]

RECURSIVE LinkLoop(_, _, _, _, _, _)
LinkLoop(acc, k, sel, case_sensitive, active_to_selected, iter) ==
    IF k > Len(acc.arm[ActiveObject]) THEN acc
    ELSE LinkLoop(LinkStep(acc, k, sel, case_sensitive, active_to_selected, iter),
                  k + 1, sel, case_sensitive, active_to_selected, iter)

\* Mutant of add_constraints: the check for armatures without bones is missing
add_constraints_unchecked(arm, case_sensitive, selected_objects, active_to_selected, iter) ==
    IF selected_armatures(selected_objects) = {}
    THEN Cancelled(arm, "ERROR")
    ELSE LET sel == CHOOSE o \in selected_armatures(selected_objects) : TRUE
         IN Summarise(
              LinkLoop([arm |-> arm, aligned_count |-> 0,
                        unmatched_bones |-> <<>>, trace |-> <<>>],
                       1, sel, case_sensitive, active_to_selected, iter))

add_constraints(arm, case_sensitive, selected_objects, active_to_selected, iter) ==
    IF selected_armatures(selected_objects) = {}
    THEN Cancelled(arm, "ERROR")
    ELSE LET sel == CHOOSE o \in selected_armatures(selected_objects) : TRUE
         IN IF arm[ActiveObject] = <<>> \/ arm[sel] = <<>>
            THEN Cancelled(arm, "ERROR")
            ELSE Summarise(
                   LinkLoop([arm |-> arm, aligned_count |-> 0,
                             unmatched_bones |-> <<>>, trace |-> <<>>],
                            1, sel, case_sensitive, active_to_selected, iter))

\* poll of the two pose-mode link operators
PollAlignPose(selected_objects) ==
    /\ Cardinality(selected_objects) >= 1
    /\ mode = "POSE"

AlignActiveToSelectedPose ==
    /\ First
    /\ \E case_sensitive \in BOOLEAN, selected_objects \in SUBSET Objects,
       iter \in IterModes :
        /\ PollAlignPose(selected_objects)
        /\ Invoke("align_active_to_selected_pose",
                  [NoArgs EXCEPT !.case_sensitive = case_sensitive,
                                 !.selected_objects = selected_objects,
                                 !.iter = iter],
                  add_constraints(armatures, case_sensitive, selected_objects, TRUE, iter))

AlignSelectedToActivePose ==
    /\ First
    /\ \E case_sensitive \in BOOLEAN, selected_objects \in SUBSET Objects,
       iter \in IterModes :
        /\ PollAlignPose(selected_objects)
        /\ Invoke("align_selected_to_active_pose",
                  [NoArgs EXCEPT !.case_sensitive = case_sensitive,
                                 !.selected_objects = selected_objects,
                                 !.iter = iter],
                  add_constraints(armatures, case_sensitive, selected_objects, FALSE, iter))

----------------------------------------------------------------------------
(* Pose mode: clear constraints *)

\* Lines 312-315 for one bone
ClearBone(acc, ref, iter) ==
    LET list == acc.arm[ref[1]][ref[2]].constraints
        r == RemoveWhileIterating(list, 1, 0, Range(list), iter)
    IN [arm |-> [acc.arm EXCEPT ![ref[1]][ref[2]].constraints = r.list],
        cleared_count |-> acc.cleared_count + r.removed,
        trace |-> acc.trace \o [k \in 1..r.removed |-> Mutate(ref)]]

RECURSIVE ClearLoop(_, _, _, _)
ClearLoop(acc, selected_bones, k, iter) ==
    IF k > Len(selected_bones) THEN acc
    ELSE ClearLoop(ClearBone(acc, selected_bones[k], iter), selected_bones, k + 1, iter)

\* BONEALIGNER_OT_ClearConstraints.execute
clear_constraints(arm, selected_bones, iter) ==
    IF selected_bones = <<>>
    THEN Cancelled(arm, "ERROR")
    ELSE LET acc == ClearLoop([arm |-> arm, cleared_count |-> 0, trace |-> <<>>],
                              selected_bones, 1, iter)
         IN Outcome(acc.arm, "FINISHED",
                    acc.trace \o <<Report("INFO", TRUE, acc.cleared_count), Update>>)

\* Every bone of every armature, armature by armature
RECURSIVE AllBoneRefs(_, _)
AllBoneRefs(arm, o) ==
    IF o \notin Objects THEN <<>>
    ELSE [i \in DOMAIN arm[o] |-> <<o, i>>] \o AllBoneRefs(arm, o + 1)

\* The subsequence of s at the positions in P
RECURSIVE Pick(_, _, _)
Pick(s, P, k) ==
    IF k > Len(s) THEN <<>>
    ELSE (IF k \in P THEN <<s[k]>> ELSE <<>>) \o Pick(s, P, k + 1)

ClearConstraints ==
    /\ First
    /\ mode = "POSE"
    /\ \E P \in SUBSET (1..Len(AllBoneRefs(armatures, ActiveObject))), iter \in IterModes :
          LET selected_bones == Pick(AllBoneRefs(armatures, ActiveObject), P, 1)
          IN Invoke("clear_constraints",
                    [NoArgs EXCEPT !.bones = selected_bones, !.iter = iter],
                    clear_constraints(armatures, selected_bones, iter))

----------------------------------------------------------------------------
(* Edit mode: rename *)

Digits == <<"1", "2", "3", "4", "5", "6", "7", "8", "9">>
Suffix(k) == <<".", "0", "0", Digits[k]>>

HasSuffix(name) ==
    /\ Len(name) > 4
    /\ \E k \in DOMAIN Digits : SubSeq(name, Len(name) - 3, Len(name)) = Suffix(k)

Stem(name) == IF HasSuffix(name) THEN SubSeq(name, 1, Len(name) - 4) ELSE name

\* The host keeps bone names unique within an armature: a name another bone of
\* the armature holds is replaced by the stem with the first free ".00k".
UniqueName(arm, ref, name) ==
    LET taken == {arm[ref[1]][i].name : i \in DOMAIN arm[ref[1]] \ {ref[2]}}
        free == {k \in DOMAIN Digits : Stem(name) \o Suffix(k) \notin taken}
    IN IF name \notin taken THEN name
       ELSE Stem(name) \o Suffix(CHOOSE k \in free : \A j \in free : k <= j)

\* <bone>.name = <name>
SetName(arm, ref, name) ==
    [arm EXCEPT ![ref[1]][ref[2]].name = UniqueName(arm, ref, name)]

BoneAt(arm, ref) == arm[ref[1]][ref[2]]

\* selected_bone = next(b for b in bones if b != active_bone)
NextOther(bones, active_bone) ==
    bones[CHOOSE i \in DOMAIN bones :
            /\ bones[i] # active_bone
            /\ \A j \in DOMAIN bones : bones[j] # active_bone => i <= j]

\* Mutant of RenameBody: the check for equal names is missing
RenameBodyUnchecked(arm, renamed, kept, raises) ==
    IF raises
    THEN Cancelled(arm, "ERROR")
    ELSE Outcome(SetName(arm, renamed, BoneAt(arm, kept).name), "FINISHED",
                 <<Mutate(renamed), Report("INFO", TRUE, 1), Update>>)

\* The two rename operators' execute: `renamed` is the bone that receives the
\* name of `kept` (lines 150-163, 188-201)
RenameBody(arm, renamed, kept, raises) ==
    IF BoneAt(arm, kept).name = BoneAt(arm, renamed).name
    THEN Cancelled(arm, "WARNING")
    ELSE IF raises
         THEN Cancelled(arm, "ERROR")
         ELSE Outcome(SetName(arm, renamed, BoneAt(arm, kept).name), "FINISHED",
                      <<Mutate(renamed), Report("INFO", TRUE, 1), Update>>)

rename_selected_to_active(arm, bones, active_bone, raises) ==
    IF active_bone = NoBone
    THEN Cancelled(arm, "ERROR")
    ELSE RenameBody(arm, NextOther(bones, active_bone), active_bone, raises)

rename_active_to_selected(arm, bones, active_bone, raises) ==
    IF active_bone = NoBone
    THEN Cancelled(arm, "ERROR")
    ELSE RenameBody(arm, active_bone, NextOther(bones, active_bone), raises)

\* context.selected_editable_bones when poll holds: two bones, in the order
\* of the scene
EditableBonePairs(arm) ==
    LET all == AllBoneRefs(arm, ActiveObject)
    IN {<<all[p[1]], all[p[2]]>> :
          p \in {q \in (DOMAIN all) \X (DOMAIN all) : q[1] < q[2]}}

\* context.active_bone: a bone of the active armature, or none
ActiveBones(arm) == {<<ActiveObject, i>> : i \in DOMAIN arm[ActiveObject]} \cup {NoBone}

\* The names the model lets the host hand out
NamesBounded(arm) ==
    \A o \in Objects : \A i \in DOMAIN arm[o] :
        HasSuffix(arm[o][i].name) =>
            \E k \in 1..MaxSuffix : arm[o][i].name = Stem(arm[o][i].name) \o Suffix(k)

RenameSelectedToActive ==
    /\ First
    /\ mode = "EDIT_ARMATURE"
    /\ \E bones \in EditableBonePairs(armatures), active_bone \in ActiveBones(armatures),
          raises \in BOOLEAN :
          LET out == rename_selected_to_active(armatures, bones, active_bone, raises)
          IN /\ NamesBounded(out.arm)
             /\ Invoke("rename_selected_to_active",
                       [NoArgs EXCEPT !.bones = bones, !.active_bone = active_bone,
                                      !.raises = raises],
                       out)

RenameActiveToSelected ==
    /\ First
    /\ mode = "EDIT_ARMATURE"
    /\ \E bones \in EditableBonePairs(armatures), active_bone \in ActiveBones(armatures),
          raises \in BOOLEAN :
          LET out == rename_active_to_selected(armatures, bones, active_bone, raises)
          IN /\ NamesBounded(out.arm)
             /\ Invoke("rename_active_to_selected",
                       [NoArgs EXCEPT !.bones = bones, !.active_bone = active_bone,
                                      !.raises = raises],
                       out)

----------------------------------------------------------------------------
(* The scenes the operators start from *)

\* Parent references of n bones: none, each bone the child of the one before
\* it, or each bone the child of the one after it
Hierarchies(n) ==
    {[i \in 1..n |-> None],
     [i \in 1..n |-> i - 1],
     [i \in 1..n |-> IF i = n THEN None ELSE i + 1]}

Flat(n) == {[i \in 1..n |-> None]}

\* Armatures of at most MaxBones bones, named apart; `flat`: without parents
Rigs(obj, flat) ==
    UNION {{[i \in 1..k |-> NewBone(obj, i, names[i], par[i])] :
              names \in {s \in [1..k -> BoneNames] : Injective(s)},
              par \in IF flat THEN Flat(k) ELSE Hierarchies(k)} : k \in 0..MaxBones}

Other(o) == IF o = ActiveObject THEN OtherObject ELSE ActiveObject

\* Constraints a bone of armature o may hold before any operator ran: copies
\* of the transforms or of the rotation of the other armature's first bone
StartConstraints(arm, o) ==
    {Constraint(type, Other(o), arm[Other(o)][j].name) :
        type \in {"COPY_TRANSFORMS", "COPY_ROTATION"},
        j \in DOMAIN arm[Other(o)] \cap {1}}

\* arm, with the first bone of one armature given a constraint list
WithConstraints(arm) ==
    {arm} \cup
    UNION {{[arm EXCEPT ![o][1].constraints = list] :
              list \in SeqUpTo(StartConstraints(arm, o), MaxConstraints)} :
           o \in {x \in Objects : arm[x] # <<>>}}

\* The two armatures of the specification's worked example: hip > spine > head
\* in the active armature, HIP and spine in the other
ExampleArmatures ==
    [o \in Objects |->
        IF o = ActiveObject
        THEN <<NewBone(o, 1, hip, None), NewBone(o, 2, spine, 1), NewBone(o, 3, head, 2)>>
        ELSE <<NewBone(o, 1, HIP, None), NewBone(o, 2, spine, 1)>>]

Scenes ==
    {[mode |-> m, arm |-> ExampleArmatures] : m \in {"EDIT_ARMATURE", "POSE"}}
    \cup
    {[mode |-> "EDIT_ARMATURE", arm |-> [o \in Objects |-> IF o = ActiveObject THEN a ELSE b]] :
        a \in Rigs(ActiveObject, FALSE), b \in Rigs(OtherObject, TRUE)}
    \cup
    UNION {{[mode |-> "POSE", arm |-> arm] :
              arm \in WithConstraints([o \in Objects |-> IF o = ActiveObject THEN a ELSE b])} :
           a \in Rigs(ActiveObject, TRUE), b \in Rigs(OtherObject, TRUE)}

Init ==
    /\ \E scene \in Scenes :
          /\ mode = scene.mode
          /\ armatures = scene.arm
          /\ pre = scene.arm
    /\ op = "none"
    /\ args = NoArgs
    /\ result = "none"
    /\ trace = <<>>
    /\ invocations = 0
    /\ sortRig = <<>>
    /\ sortPc = "idle"
    /\ loopIdx = 1
    /\ stack = <<>>
    /\ visited = {}
    /\ sorted_bones = <<>>

LinkOperators == {"align_active_to_selected_pose", "align_selected_to_active_pose"}

\* The user invokes the same link operator again, nothing else having changed
RepeatLink ==
    /\ op \in LinkOperators
    /\ invocations < MaxInvocations
    /\ Record(op, args,
              add_constraints(armatures, args.case_sensitive, args.selected_objects,
                              op = "align_active_to_selected_pose", args.iter))

Next ==
    \/ AlignActiveToSelected
    \/ AlignSelectedToActive
    \/ RenameSelectedToActive
    \/ RenameActiveToSelected
    \/ AlignActiveToSelectedPose
    \/ AlignSelectedToActivePose
    \/ ClearConstraints
    \/ RepeatLink

Spec == Init /\ [][Next]_vars

----------------------------------------------------------------------------
(* What the claims speak about *)

AlignOperators == {"align_active_to_selected", "align_selected_to_active"}
RenameOperators == {"rename_selected_to_active", "rename_active_to_selected"}
ActiveToSelected == op \in {"align_active_to_selected", "align_active_to_selected_pose"}

\* The armature the last invocation paired with the active one
Sel == CHOOSE o \in selected_armatures(args.selected_objects) : TRUE

\* Align and link: the precondition of lines 67-74 and 226-233, on the scene
\* the invocation started from
PreconditionUnmet ==
    \/ selected_armatures(args.selected_objects) = {}
    \/ pre[ActiveObject] = <<>>
    \/ pre[Sel] = <<>>

SummaryAt == {i \in DOMAIN trace : trace[i].ev = "report" /\ trace[i].summary}
UpdateAt == {i \in DOMAIN trace : trace[i].ev = "update"}
MutateAt == {i \in DOMAIN trace : trace[i].ev = "mutate"}
TheSummary == trace[CHOOSE i \in SummaryAt : TRUE]

\* The pairs <<active bone, other bone>> the code's lookup finds in the scene
\* the invocation started from
MatchedPairs ==
    {<<ai, ti>> \in (DOMAIN pre[ActiveObject]) \X (DOMAIN pre[Sel]) :
        ti = DictGet(pre[Sel], Identity(Len(pre[Sel])),
                     LookupKey(pre[ActiveObject][ai].name, args.case_sensitive))}

\* The active bones that have a bone of the same name, case aside, in the
\* other armature
SameNameIgnoringCase ==
    {ai \in DOMAIN pre[ActiveObject] :
        \E ti \in DOMAIN pre[Sel] :
            compare_names(pre[ActiveObject][ai].name, pre[Sel][ti].name, FALSE)}

Transform(b) == <<b.head, b.tail, b.matrix, b.roll>>

EquivalentLinks(list, target, subtarget) ==
    {i \in DOMAIN list : /\ list[i].type = "COPY_TRANSFORMS"
                         /\ list[i].target = target
                         /\ list[i].subtarget = subtarget}

RECURSIVE SumLen(_, _, _)
SumLen(arm, refs, k) ==
    IF k > Len(refs) THEN 0
    ELSE Len(BoneAt(arm, refs[k]).constraints) + SumLen(arm, refs, k + 1)

----------------------------------------------------------------------------
(* C1 *)

\* C1: with case sensitivity off, the align and the link operators match every
\* active bone whose name equals, after lower-casing, the name of a bone of the
\* other armature: the count the summary reports is the number of such bones,
\* and the summary is an info when there is at least one.
C1_MatchesIgnoringCase ==
    (/\ op \in AlignOperators \cup LinkOperators
     /\ result = "FINISHED"
     /\ ~args.case_sensitive)
    => /\ TheSummary.n = Cardinality(SameNameIgnoringCase)
       /\ (SameNameIgnoringCase # {} => TheSummary.level = "INFO")

----------------------------------------------------------------------------
(* C2 *)

\* C2: after either edit-mode align operator, for every matched pair the
\* recipient's head, tail, matrix and roll are the donor's values from before
\* the invocation, and the donor's are unchanged.
C2_RecipientTakesDonorTransform ==
    (op \in AlignOperators /\ result = "FINISHED")
    => \A pair \in MatchedPairs :
          LET a == <<ActiveObject, pair[1]>>
              t == <<Sel, pair[2]>>
              donor == IF ActiveToSelected THEN t ELSE a
              recipient == IF ActiveToSelected THEN a ELSE t
          IN /\ Transform(BoneAt(armatures, recipient)) = Transform(BoneAt(pre, donor))
             /\ Transform(BoneAt(armatures, donor)) = Transform(BoneAt(pre, donor))

----------------------------------------------------------------------------
(* C3 *)

----------------------------------------------------------------------------
(* C4 *)

----------------------------------------------------------------------------
(* C5 *)

\* The invocation failed a precondition: align or link without another
\* armature or with an armature without bones, clear-links without a bone
C5_Failed ==
    \/ op \in AlignOperators \cup LinkOperators /\ PreconditionUnmet
    \/ op = "clear_constraints" /\ args.bones = <<>>

\* C5: an invocation that fails a precondition reports one error and nothing
\* else, returns CANCELLED, changes no bone and no constraint list, and
\* issues no scene update.
C5_PreconditionFailureChangesNothing ==
    C5_Failed
    => /\ trace = <<Report("ERROR", TRUE, 0)>>
       /\ result = "CANCELLED"
       /\ armatures = pre

\* A link operator invoked with only the active armature selected, in a scene
\* that holds constraints
C5_Witness ==
    /\ op \in LinkOperators
    /\ selected_armatures(args.selected_objects) = {}
    /\ \E o \in Objects : \E i \in DOMAIN pre[o] : pre[o][i].constraints # <<>>
    /\ result = "CANCELLED"

----------------------------------------------------------------------------
(* C6 *)

\* b's ancestors: the bones reached from b by parent references
RECURSIVE Ancestors(_, _, _)
Ancestors(bones, b, fuel) ==
    IF fuel = 0 \/ bones[b].parent = None THEN {}
    ELSE {bones[b].parent} \cup Ancestors(bones, bones[b].parent, fuel - 1)

Cyclic(bones) == \E b \in DOMAIN bones : b \in Ancestors(bones, b, Len(bones))

PositionOf(order, b) == CHOOSE p \in DOMAIN order : order[p] = b

IsPermutation(order, bones) ==
    /\ Len(order) = Len(bones)
    /\ Range(order) = DOMAIN bones

ParentsFirst(order, bones) ==
    \A b \in DOMAIN bones :
        bones[b].parent # None =>
            PositionOf(order, bones[b].parent) < PositionOf(order, b)

\* C6: for parent references without a cycle, what get_sorted_bones returns is
\* a permutation of the bone collection with every parent before its
\* children, and is the one sequence the input determines.
C6_SortIsParentsFirstPermutation ==
    (sortPc = "done" /\ ~Cyclic(sortRig))
    => /\ IsPermutation(sorted_bones, sortRig)
       /\ ParentsFirst(sorted_bones, sortRig)
       /\ sorted_bones = GetSortedBones(sortRig)

\* A sort that had to reorder: some bone comes before its parent in the input
C6_Witness ==
    /\ sortPc = "done"
    /\ ~Cyclic(sortRig)
    /\ Len(sortRig) >= 3
    /\ \E b \in DOMAIN sortRig : sortRig[b].parent > b

----------------------------------------------------------------------------
(* C7 *)

NothingDone == result = "CANCELLED" /\ armatures = pre /\ MutateAt = {} /\ UpdateAt = {}

\* Why an invocation may end in an error: a precondition is unmet (no other
\* armature, an armature without bones, no pose bone selected, no active
\* bone), or the host refused the rename
C7_ErrorCase ==
    \/ C5_Failed
    \/ op \in RenameOperators /\ (args.active_bone = NoBone \/ args.raises)

C7_WarningCase ==
    \/ op \in AlignOperators \cup LinkOperators /\ result = "FINISHED" /\ MatchedPairs = {}
    \/ /\ op \in RenameOperators
       /\ BoneAt(pre, args.active_bone).name
            = BoneAt(pre, NextOther(args.bones, args.active_bone)).name

\* C7 as claimed: every invocation emits exactly one summary; an error only
\* when the operation aborted on an unmet precondition before any mutation, a
\* warning only when it ran without a match or the rename was redundant, an
\* info only for N >= 1 processed items.
C7_OneSummaryOfThreeLevels ==
    op # "none"
    => /\ Cardinality(SummaryAt) = 1
       /\ TheSummary.level \in {"ERROR", "WARNING", "INFO"}
       /\ TheSummary.level = "ERROR" => C7_ErrorCase /\ NothingDone
       /\ TheSummary.level = "WARNING" => C7_WarningCase
       /\ TheSummary.level = "INFO" => TheSummary.n >= 1

\* C7 as amended: the same, except that clear-links on selected bones that
\* hold no constraint also ends in an info, for N = 0.
C7_OneSummaryInfoAlsoForEmptyClear ==
    op # "none"
    => /\ Cardinality(SummaryAt) = 1
       /\ TheSummary.level \in {"ERROR", "WARNING", "INFO"}
       /\ TheSummary.level = "ERROR" => C7_ErrorCase /\ NothingDone
       /\ TheSummary.level = "WARNING" => C7_WarningCase
       /\ TheSummary.level = "INFO" =>
             \/ TheSummary.n >= 1
             \/ /\ op = "clear_constraints"
                /\ args.bones # <<>>
                /\ SumLen(pre, args.bones, 1) = 0

\* Clear-links on selected bones without constraints: an info for zero items
C7_Witness ==
    /\ op = "clear_constraints"
    /\ args.bones # <<>>
    /\ result = "FINISHED"
    /\ TheSummary.level = "INFO"
    /\ TheSummary.n = 0

----------------------------------------------------------------------------
(* C8 *)

C8_SameName ==
    /\ op \in RenameOperators
    /\ args.active_bone # NoBone
    /\ BoneAt(pre, args.active_bone).name
         = BoneAt(pre, NextOther(args.bones, args.active_bone)).name

\* C8: when the two designated bones already have the same name, either
\* rename operator emits a warning and nothing else, renames nothing and
\* issues no scene update.
C8_RedundantRenameIsWarning ==
    C8_SameName
    => /\ trace = <<Report("WARNING", TRUE, 0)>>
       /\ armatures = pre
       /\ result = "CANCELLED"

\* A rename between two bones of the same name, one in each armature
C8_Witness ==
    /\ C8_SameName
    /\ op = "rename_selected_to_active"
    /\ ~args.raises

----------------------------------------------------------------------------
(* C9 *)

C9_Ran == op \in AlignOperators \cup LinkOperators /\ ~PreconditionUnmet

\* C9 as claimed: mutations, then exactly one scene update, then the summary.
C9_MutateUpdateSummary ==
    C9_Ran
    => /\ Cardinality(UpdateAt) = 1
       /\ Cardinality(SummaryAt) = 1
       /\ \A m \in MutateAt : \A u \in UpdateAt : m < u
       /\ \A u \in UpdateAt : \A r \in SummaryAt : u < r

\* C9 as amended: mutations, then the summary, then exactly one scene update,
\* which is the last event; no update lies between two mutations.
C9_MutateSummaryUpdate ==
    C9_Ran
    => /\ Cardinality(UpdateAt) = 1
       /\ Cardinality(SummaryAt) = 1
       /\ \A m \in MutateAt : \A r \in SummaryAt : m < r
       /\ \A r \in SummaryAt : \A u \in UpdateAt : r < u
       /\ UpdateAt = {Len(trace)}

\* An align that changed two bones
C9_Witness ==
    /\ op \in AlignOperators
    /\ result = "FINISHED"
    /\ Cardinality(MutateAt) >= 2

----------------------------------------------------------------------------
(* C10 *)

\* C10 as claimed: with a cycle in the parent references get_sorted_bones
\* never returns.
C10_NeverReturnsOnCycle == Cyclic(sortRig) => sortPc # "done"

\* C10 as amended: with a cycle in the parent references get_sorted_bones
\* still returns, a permutation of the bone collection in which some bone of
\* the cycle comes before its parent.
C10_ReturnsOnCycle ==
    Cyclic(sortRig)
    => <>(/\ sortPc = "done"
          /\ IsPermutation(sorted_bones, sortRig)
          /\ ~ParentsFirst(sorted_bones, sortRig))

\* A returned sort of a cycle of two or more bones
C10_Witness ==
    /\ sortPc = "done"
    /\ \E b \in DOMAIN sortRig :
          /\ sortRig[b].parent \notin {None, b}
          /\ b \in Ancestors(sortRig, b, Len(sortRig))

====
